---- MODULE Spec2Model ----
(***************************************************************************)
(* Token lifecycle of the spostats backend: the OAuth callback, the        *)
(* requireAuth middleware with its token refresh, the proxied catalog      *)
(* endpoints and the dedicated refresh route.                              *)
(*                                                                         *)
(* The repository carries two complete programs for the same credential    *)
(* store, and the model carries both; `variant` is chosen once in Init:    *)
(*   "jwt"   - the record lives in a signed cookie (JWTSessionManager,      *)
(*             routes/api.ts 87-329, routes/auth.ts 210-442);              *)
(*   "store" - the record lives in an express-session store entry          *)
(*             (the api router of part_004, routes/auth.ts 560-860).       *)
(* In both, a request works on the copy of the record it read when it      *)
(* arrived; `session[s]` is the persisted artifact the next request reads. *)
(*                                                                         *)
(* JavaScript values: a token is a natural number, 0 standing for every    *)
(* falsy value (undefined, ""); token_expires_at 0 stands for a falsy      *)
(* expiry (undefined, NaN serialised as null). The clock never reads 0.    *)
(***************************************************************************)
EXTENDS Integers, Sequences, FiniteSets, TLC

\* ------------------------------------------------------------------ bounds
MaxTicks == 1
MaxAT == 2
MaxRT == 2
MaxStates == 1
MaxStarted == 2
MaxHours == 26
MaxLogins == 2

\* ------------------------------------------------------- program constants
SafetyMargin == 60000

TickMs == 2 * SafetyMargin
StartTime == 2 * SafetyMargin
MaxNow == StartTime + MaxTicks * TickMs

Variants == {"jwt", "store"}
Sessions == {"s1"}
Requests == {1, 2}
ExpiresInSet == {60, 120}
CatalogStatuses == {200, 401, 429, 500}
NoResponse == [has |-> FALSE, status |-> 0]

VARIABLES variant, now, session, oauth_state, req, started,
          validRT, rotated, atCount, rtCount, stCount,
          refreshFailed, loggedOut, passedStates, artifact

vars == <<variant, now, session, oauth_state, req, started,
          validRT, rotated, atCount, rtCount, stCount,
          refreshFailed, loggedOut, passedStates, artifact>>

\* ------------------------------------------------------------- the record
\* The lifetime of the artifact (the exp claim of the JWT, the maxAge of the
\* cookies) is 24 hours, far beyond the minutes Spec and EarlySpec cover; they
\* leave `artifact` alone, LifetimeSpec follows it hour by hour, and
\* RoundTripSpec adds to it what the cookie carries.
NoArtifact == [expires |-> 0, authorized |-> 0]

Absent == [present |-> FALSE, access_token |-> 0, refresh_token |-> 0,
           token_expires_at |-> 0, user |-> 0]

\* A request in flight: its position, what it read and holds, the calls it has
\* made, what it answered, and how often it has called next() and sent a response.
IdleReq == [pc |-> "idle", kind |-> "none", sid |-> "s1", at |-> 0,
            snap |-> Absent, sessionData |-> Absent, calls |-> <<>>,
            refresh |-> "none", resp |-> [ok |-> FALSE, access_token |-> 0,
                                          refresh_token |-> 0, has_expires_in |-> FALSE,
                                          expires_in |-> 0],
            upstream |-> NoResponse, cookie |-> "none", wrote |-> "none",
            clobbered |-> Absent, badState |-> FALSE, hasError |-> FALSE,
            hasCode |-> FALSE, forged |-> FALSE, state |-> 0, issued |-> FALSE,
            afterFailure |-> FALSE, afterLogout |-> FALSE, replay |-> FALSE,
            nexts |-> 0, sent |-> 0, tokenExpired |-> FALSE,
            status |-> 0, code |-> "none"]

Call(ep, tok) == [ep |-> ep, tok |-> tok, old |-> (ep = "refresh" /\ tok \in rotated)]

CountCalls(calls, ep) == Cardinality({i \in 1..Len(calls) : calls[i].ep = ep})

\* ------------------------------------------------------------ requireAuth
hasAccessToken(sd) == sd.access_token # 0

isTokenExpiredOffByOne(sd, t) ==
    sd.token_expires_at = 0 \/ t > sd.token_expires_at - SafetyMargin

isTokenExpired(sd, t) ==
    sd.token_expires_at = 0 \/ t >= sd.token_expires_at - SafetyMargin

\* Date.now() + expires_in * 1000; NaN (falsy) when expires_in is undefined
TokenExpiresAt(t, resp) ==
    IF resp.has_expires_in THEN t + resp.expires_in * 1000 ELSE 0

UpdatedSessionDataKeepsExpiry(sd, resp, t) ==
    [sd EXCEPT !.present = TRUE,
               !.access_token = resp.access_token,
               !.refresh_token = IF resp.refresh_token # 0 THEN resp.refresh_token ELSE @]

UpdatedSessionData(sd, resp, t) ==
    [sd EXCEPT !.present = TRUE,
               !.access_token = resp.access_token,
               !.token_expires_at = TokenExpiresAt(t, resp),
               !.refresh_token = IF resp.refresh_token # 0 THEN resp.refresh_token ELSE @]

handleApiErrorAlways500(up) == 500

handleApiError(up) == IF up.has THEN up.status ELSE 500

\* ---------------------------------------------------------- the provider
FailedResponse == [ok |-> FALSE, access_token |-> 0, refresh_token |-> 0,
                   has_expires_in |-> FALSE, expires_in |-> 0]

NewAT == IF atCount < MaxAT THEN {atCount + 1} ELSE {}
NewRT == IF rtCount < MaxRT THEN {rtCount + 1} ELSE {}

\* the 2xx bodies of the token endpoint: {access_token, refresh_token?, expires_in},
\* and the two malformed ones (no access_token; no expires_in)
TokenBodies ==
    {[ok |-> TRUE, access_token |-> a, refresh_token |-> n,
      has_expires_in |-> TRUE, expires_in |-> e] :
        a \in NewAT, n \in {0} \cup NewRT, e \in ExpiresInSet}
    \cup {[ok |-> TRUE, access_token |-> 0, refresh_token |-> 0,
           has_expires_in |-> TRUE, expires_in |-> 120]}
    \cup {[ok |-> TRUE, access_token |-> a, refresh_token |-> 0,
           has_expires_in |-> FALSE, expires_in |-> 0] : a \in NewAT}

\* what the token endpoint can answer to grant_type=refresh_token with rt:
\* an error (rejection, network error, timeout) or, for a token it accepts, a body
RefreshResponses(rt) ==
    {FailedResponse} \cup (IF rt \in validRT THEN TokenBodies ELSE {})

WellFormed(resp) == resp.ok /\ resp.access_token # 0 /\ resp.has_expires_in

ProviderAfter(rt, resp) ==
    /\ atCount' = IF resp.access_token # 0 THEN resp.access_token ELSE atCount
    /\ rtCount' = IF resp.refresh_token # 0 THEN resp.refresh_token ELSE rtCount
    /\ validRT' = IF resp.refresh_token # 0
                    THEN (validRT \ {rt}) \cup {resp.refresh_token} ELSE validRT
    /\ rotated' = IF resp.refresh_token # 0 /\ rt # 0 THEN rotated \cup {rt} ELSE rotated

\* ------------------------------------------------------------------- Init
\* the state the express-session program embeds: req.sessionID
sessionID(s) == 1

\* the record the callback commits
CallbackSessionData(resp, t) ==
    [present |-> TRUE, access_token |-> resp.access_token,
     refresh_token |-> resp.refresh_token,
     token_expires_at |-> TokenExpiresAt(t, resp), user |-> 1]

\* The program starts with no record, or with the record a login and a callback
\* have just committed (Login, Callback, CallbackExchangeResponse and
\* CallbackProfileResponse, run once at StartTime with tokens 1 and 1).
FirstBodies ==
    {[ok |-> TRUE, access_token |-> 1, refresh_token |-> 1,
      has_expires_in |-> TRUE, expires_in |-> e] : e \in ExpiresInSet}

Init ==
    /\ variant \in Variants
    /\ now = StartTime
    /\ req = [r \in Requests |-> IdleReq]
    /\ rotated = {}
    /\ started = 0
    /\ refreshFailed = [s \in Sessions |-> FALSE]
    /\ loggedOut = [s \in Sessions |-> FALSE]
    /\ artifact = [s \in Sessions |-> NoArtifact]
    /\ \/ /\ session = [s \in Sessions |-> Absent]
          /\ oauth_state = [s \in Sessions |-> 0]
          /\ validRT = {}
          /\ atCount = 0
          /\ rtCount = 0
          /\ stCount = 0
          /\ passedStates = [s \in Sessions |-> {}]
       \/ /\ \E b \in FirstBodies :
               session = [s \in Sessions |-> CallbackSessionData(b, StartTime)]
          /\ oauth_state = [s \in Sessions |-> IF variant = "jwt" THEN 0 ELSE sessionID(s)]
          /\ validRT = {1}
          /\ atCount = 1
          /\ rtCount = 1
          /\ stCount = IF variant = "jwt" THEN 1 ELSE 0
          /\ passedStates = [s \in Sessions |-> {1}]

\* A finished request's slot is released before anything else happens.
NoneDone == \A r \in Requests : req[r].pc # "done"

\* The clock's step is two minutes and every upstream call has returned or timed out
\* long before: the clock moves between requests.
Tick ==
    /\ \A r \in Requests : req[r].pc = "idle"
    /\ now < MaxNow
    /\ now' = now + TickMs
    /\ UNCHANGED <<variant, artifact, session, oauth_state, req, started, validRT, rotated,
                   atCount, rtCount, stCount, refreshFailed, loggedOut, passedStates>>

ProviderUnchanged == UNCHANGED <<validRT, rotated, atCount, rtCount>>

\* refreshFailed[s]: a request on s has answered REFRESH_FAILED and no callback has
\* committed a record since; loggedOut[s]: s was logged out and no request on it
\* has been received since; passedStates[s]: the state values with which a
\* callback on s has passed the state check
HistoryUnchanged == UNCHANGED <<refreshFailed, loggedOut, passedStates>>

\* a request on session s is received
Received(s) ==
    /\ loggedOut' = [loggedOut EXCEPT ![s] = FALSE]
    /\ UNCHANGED <<refreshFailed, passedStates>>

\* the fields every request starts with
NewRequest(kind, s) ==
    [IdleReq EXCEPT !.kind = kind, !.sid = s, !.at = now,
                    !.snap = session[s], !.sessionData = session[s],
                    !.afterFailure = refreshFailed[s], !.afterLogout = loggedOut[s]]

\* a request is accepted into the lowest free slot
CanStart(r) ==
    /\ started < MaxStarted
    /\ NoneDone
    /\ req[r].pc = "idle"
    /\ \A r2 \in Requests : r2 < r => req[r2].pc # "idle"

\* res.status(status).json(...) / res.redirect(...): one more response is sent
Respond(q, status, code) ==
    [q EXCEPT !.pc = "done", !.status = status, !.code = code, !.sent = @ + 1]

\* the request has written (or cleared) the artifact that held prev
Wrote(q, prev) == IF q.wrote = "none" THEN q ELSE [q EXCEPT !.clobbered = prev]

\* --------------------------------------------- protected API request: start
\* requireAuth up to its first await, and on the fresh path the route handler
\* up to its axios.get
requireAuthAccessTokenOnly(q, sd, t) ==
    IF ~hasAccessToken(sd)
      THEN Respond(q, 401, "NO_SESSION")
    ELSE IF ~isTokenExpired(sd, t) \/ sd.refresh_token = 0
      THEN [q EXCEPT !.pc = "catalog", !.nexts = @ + 1,
                     !.calls = <<Call("catalog", sd.access_token)>>]
    ELSE [q EXCEPT !.pc = "refresh",
                   !.calls = <<Call("refresh", sd.refresh_token)>>]

requireAuth(q, sd, t) ==
    IF variant = "jwt" /\ ~sd.present
      THEN Respond(q, 401, "NO_SESSION")
    ELSE IF sd.refresh_token = 0
      THEN Respond(q, 401, "NO_REFRESH_TOKEN")
    ELSE IF hasAccessToken(sd) /\ ~isTokenExpired(sd, t)
      THEN [q EXCEPT !.pc = "catalog", !.nexts = @ + 1,
                     !.calls = <<Call("catalog", sd.access_token)>>]
    ELSE [q EXCEPT !.pc = "refresh",
                   !.calls = <<Call("refresh", sd.refresh_token)>>]

\* what the request reads from the artifact it carries: the record, or nothing
\* when the artifact does not verify (jwt.verify throws; a session id with a bad
\* signature opens an empty session)
getSession(stored, verifies) == IF verifies THEN stored ELSE Absent

ApiRequest(r, s) ==
    /\ CanStart(r)
    /\ \E verifies \in BOOLEAN :
         LET sd == getSession(session[s], verifies)
         IN req' = [req EXCEPT ![r] =
                      requireAuth([NewRequest("api", s) EXCEPT
                                     !.snap = sd, !.sessionData = sd,
                                     !.forged = ~verifies], sd, now)]
    /\ started' = started + 1
    /\ Received(s)
    /\ UNCHANGED <<variant, artifact, now, session, oauth_state, stCount>>
    /\ ProviderUnchanged

\* ------------------------- protected API request: the refresh call returns
RefreshFailedProceeds(q) ==
    [q EXCEPT !.pc = "catalog", !.nexts = @ + 1, !.refresh = "failed",
              !.calls = Append(@, Call("catalog", q.sessionData.access_token))]

RefreshFailed(q) ==
    [Respond(q, 401, "REFRESH_FAILED") EXCEPT !.refresh = "failed", !.wrote = "clear"]

RefreshSucceededOldBearer(q, resp, t) ==
    LET upd == UpdatedSessionData(q.sessionData, resp, t)
    IN [q EXCEPT !.pc = "catalog", !.nexts = @ + 1, !.sessionData = upd, !.resp = resp,
                 !.refresh = "ok",
                 !.cookie = IF variant = "jwt" THEN "set" ELSE @,
                 !.wrote = IF variant = "store" THEN "set" ELSE @,
                 !.calls = Append(@, Call("catalog", q.sessionData.access_token))]

RefreshSucceeded(q, resp, t) ==
    LET upd == UpdatedSessionData(q.sessionData, resp, t)
    IN [q EXCEPT !.pc = "catalog", !.nexts = @ + 1, !.sessionData = upd, !.resp = resp,
                 !.refresh = "ok",
                 !.cookie = IF variant = "jwt" THEN "set" ELSE @,
                 !.wrote = IF variant = "store" THEN "set" ELSE @,
                 !.calls = Append(@, Call("catalog", upd.access_token))]

ApiRefreshResponse(r) ==
    /\ NoneDone
    /\ req[r].pc = "refresh"
    /\ LET q == req[r]
           rt == q.calls[1].tok
       IN \E resp \in RefreshResponses(rt) :
            /\ ProviderAfter(rt, resp)
            /\ IF resp.ok
                 THEN /\ req' = [req EXCEPT ![r] =
                                   Wrote(RefreshSucceeded(q, resp, now), session[q.sid])]
                      /\ session' = IF variant = "store"
                                      THEN [session EXCEPT ![q.sid] = req'[r].sessionData]
                                      ELSE session
                 ELSE /\ req' = [req EXCEPT ![r] =
                                   Wrote([RefreshFailed(q) EXCEPT !.resp = resp], session[q.sid])]
                      /\ session' = IF req'[r].wrote = "clear"
                                      THEN [session EXCEPT ![q.sid] = Absent]
                                      ELSE session
            /\ refreshFailed' = IF req'[r].code = "REFRESH_FAILED"
                                  THEN [refreshFailed EXCEPT ![q.sid] = TRUE]
                                  ELSE refreshFailed
    /\ UNCHANGED <<started, variant, artifact, now, oauth_state, stCount, loggedOut, passedStates>>

\* --------------------------- protected API request: the catalog call returns
CatalogAnswers(bearer) ==
    {NoResponse} \cup
    {[has |-> TRUE, status |-> st] :
        st \in (IF bearer = 0 THEN CatalogStatuses \ {200} ELSE CatalogStatuses)}

RouteHandlerDoneCookieLost(q, up) ==
    [Respond(q, IF up.has /\ up.status = 200 THEN 200 ELSE handleApiError(up),
                IF up.has /\ up.status = 200 THEN "OK" ELSE "API_ERROR")
       EXCEPT !.upstream = up]

RouteHandlerDone(q, up) ==
    [Respond(q, IF up.has /\ up.status = 200 THEN 200 ELSE handleApiError(up),
                IF up.has /\ up.status = 200 THEN "OK" ELSE "API_ERROR")
       EXCEPT !.upstream = up,
              !.wrote = IF q.cookie = "set" THEN "set" ELSE @]

CatalogResponse(r) ==
    /\ NoneDone
    /\ req[r].pc = "catalog"
    /\ LET q == req[r]
       IN /\ \E up \in CatalogAnswers(q.calls[Len(q.calls)].tok) :
                req' = [req EXCEPT ![r] = Wrote(RouteHandlerDone(q, up), session[q.sid])]
          /\ session' = IF req'[r].wrote = "set" /\ variant = "jwt"
                          THEN [session EXCEPT ![q.sid] = q.sessionData]
                          ELSE IF req'[r].wrote = "clear"
                            THEN [session EXCEPT ![q.sid] = Absent]
                            ELSE session
    /\ UNCHANGED <<started, variant, artifact, now, oauth_state, stCount>>
    /\ ProviderUnchanged
    /\ HistoryUnchanged

\* ------------------------------------------------------- POST /auth/refresh
refreshRoute(q, sd) ==
    IF sd.refresh_token = 0
      THEN Respond(q, 401, "NO_REFRESH_TOKEN")
      ELSE [q EXCEPT !.pc = "rf_refresh",
                     !.calls = <<Call("refresh", sd.refresh_token)>>]

RefreshRoute(r, s) ==
    /\ variant \in {"store", "early"}
    /\ CanStart(r)
    /\ req' = [req EXCEPT ![r] = refreshRoute(NewRequest("refresh", s), session[s])]
    /\ started' = started + 1
    /\ Received(s)
    /\ UNCHANGED <<variant, artifact, now, session, oauth_state, stCount>>
    /\ ProviderUnchanged

refreshRouteSucceeded(q, resp, t) ==
    [Respond(q, 200, "REFRESHED")
       EXCEPT !.sessionData = [q.sessionData EXCEPT
                                 !.present = TRUE,
                                 !.access_token = resp.access_token,
                                 !.token_expires_at = TokenExpiresAt(t, resp)],
              !.resp = resp, !.refresh = "ok", !.wrote = "set"]

refreshRouteFailed(q) ==
    [Respond(q, 500, "COULD_NOT_REFRESH") EXCEPT !.refresh = "failed"]

RefreshRouteResponse(r) ==
    /\ NoneDone
    /\ req[r].pc = "rf_refresh"
    /\ LET q == req[r]
           rt == q.calls[1].tok
       IN \E resp \in RefreshResponses(rt) :
            /\ ProviderAfter(rt, resp)
            /\ IF resp.ok
                 THEN /\ req' = [req EXCEPT ![r] =
                                   Wrote(refreshRouteSucceeded(q, resp, now), session[q.sid])]
                      /\ session' = [session EXCEPT ![q.sid] = req'[r].sessionData]
                 ELSE /\ req' = [req EXCEPT ![r] =
                                   Wrote([refreshRouteFailed(q) EXCEPT !.resp = resp], session[q.sid])]
                      /\ session' = IF req'[r].wrote = "clear"
                                      THEN [session EXCEPT ![q.sid] = Absent]
                                      ELSE session
    /\ UNCHANGED <<started, variant, artifact, now, oauth_state, stCount>>
    /\ HistoryUnchanged

\* ------------------------------------------------------- POST /auth/session
\* { user, access_token, refresh_token, token_expires_at } of the request body:
\* tokens the frontend holds (the latest issued) or nothing, an expiry two
\* margins ahead
SessionBodies ==
    {[present |-> TRUE, access_token |-> a, refresh_token |-> n,
      token_expires_at |-> now + 2 * SafetyMargin, user |-> 1] :
        a \in {0, atCount}, n \in {0, rtCount}}

\* Object.assign(req.session, body); req.session.save(...): one synchronous step
SetSession(s) ==
    /\ variant = "store"
    /\ NoneDone
    /\ started < MaxStarted
    /\ \E body \in SessionBodies : session' = [session EXCEPT ![s] = body]
    /\ started' = started + 1
    /\ Received(s)
    /\ UNCHANGED <<variant, artifact, now, oauth_state, req, stCount>>
    /\ ProviderUnchanged

\* ---------------------------------------------------------- GET /auth/login
\* Math.random(): a value never issued before
generateState == stCount + 1

\* the request is accepted into the lowest free slot
FreeSlot(r) ==
    /\ NoneDone
    /\ req[r].pc = "idle"
    /\ \A r2 \in Requests : r2 < r => req[r2].pc # "idle"

\* the redirect to the provider's authorization URL, state among its parameters
loginOtherState(q, state) == [Respond(q, 302, "authorize") EXCEPT !.state = state + 1]

login(q, state) == [Respond(q, 302, "authorize") EXCEPT !.state = state]

\* the cookie program keeps the state in the oauth_state cookie; the session-store
\* program sends req.sessionID and keeps nothing else. At most `max` values are
\* generated.
LoginUpTo(r, s, max) ==
    /\ FreeSlot(r)
    /\ variant = "jwt" => stCount < max
    /\ LET state == IF variant = "jwt" THEN generateState ELSE sessionID(s)
       IN /\ oauth_state' = [oauth_state EXCEPT ![s] = state]
          /\ stCount' = IF variant = "jwt" THEN state ELSE stCount
          /\ req' = [req EXCEPT ![r] = login(NewRequest("login", s), state)]
    /\ Received(s)
    /\ UNCHANGED <<variant, artifact, now, session>>
    /\ ProviderUnchanged

\* a login is one of the MaxStarted requests of a run
Login(r, s) ==
    /\ started < MaxStarted
    /\ LoginUpTo(r, s, MaxStates)
    /\ started' = started + 1

\* ------------------------------------------------------- GET /auth/callback
Redirect(q, message) == Respond(q, 302, message)

\* !state || state !== storedState
StateRejected(state, storedState) == state = 0 \/ state # storedState

callbackJwtCodeUnchecked(q, hasCode, state, hasError, storedState) ==
    IF hasError THEN Redirect(q, "oauth_error")
    ELSE IF StateRejected(state, storedState) THEN Redirect(q, "state_mismatch")
    ELSE [q EXCEPT !.pc = "cb_exchange", !.calls = <<Call("token_code", 0)>>]

callbackJwt(q, hasCode, state, hasError, storedState) ==
    IF hasError THEN Redirect(q, "oauth_error")
    ELSE IF StateRejected(state, storedState) THEN Redirect(q, "state_mismatch")
    ELSE IF ~hasCode THEN Redirect(q, "no_code")
    ELSE [q EXCEPT !.pc = "cb_exchange", !.calls = <<Call("token_code", 0)>>]

callbackStore(q, hasCode, state, hasError) ==
    IF hasError THEN Redirect(q, "oauth_error")
    ELSE IF state = 0 THEN Redirect(q, "no_state")
    ELSE IF ~hasCode THEN Redirect(q, "no_code")
    ELSE [q EXCEPT !.pc = "cb_exchange", !.calls = <<Call("token_code", 0)>>]

\* the callback got past its state check
PassedStateCheck(q) == q.pc = "cb_exchange" \/ q.code = "no_code"

\* the state parameter is absent (0) or one of the values 1..max; `issued` says
\* that a login has issued it
CallbackUpTo(r, s, max) ==
    /\ CanStart(r)
    /\ \E hasCode \in BOOLEAN, hasError \in BOOLEAN, state \in 0..max :
         LET q == [NewRequest("callback", s) EXCEPT
                                  !.badState = (state = 0 \/ state # oauth_state[s]),
                                  !.hasError = hasError,
                                  !.hasCode = hasCode,
                                  !.issued = (state \in 1..stCount),
                                  !.replay = (state \in passedStates[s])]
         IN /\ req' = [req EXCEPT ![r] =
                         IF variant = "jwt"
                           THEN callbackJwt(q, hasCode, state, hasError, oauth_state[s])
                           ELSE callbackStore(q, hasCode, state, hasError)]
            /\ passedStates' = IF PassedStateCheck(req'[r])
                                 THEN [passedStates EXCEPT ![s] = @ \cup {state}]
                                 ELSE passedStates
    /\ started' = started + 1
    /\ loggedOut' = [loggedOut EXCEPT ![s] = FALSE]
    /\ UNCHANGED refreshFailed
    /\ UNCHANGED <<variant, artifact, now, session, oauth_state, stCount>>
    /\ ProviderUnchanged

Callback(r, s) == CallbackUpTo(r, s, MaxStates)

\* what the token endpoint can answer to grant_type=authorization_code
ExchangeResponses == {FailedResponse} \cup TokenBodies

callbackExchanged(q, resp) ==
    IF ~resp.ok THEN Redirect(q, "oauth_failed")
    ELSE IF variant = "jwt" /\ (resp.access_token = 0 \/ resp.refresh_token = 0)
      THEN Redirect([q EXCEPT !.resp = resp], "missing_tokens")
    ELSE [q EXCEPT !.pc = "cb_profile", !.resp = resp,
                   !.calls = Append(@, Call("identity", resp.access_token))]

CallbackExchangeResponse(r) ==
    /\ NoneDone
    /\ req[r].pc = "cb_exchange"
    /\ \E resp \in ExchangeResponses :
         /\ req' = [req EXCEPT ![r] = callbackExchanged(req[r], resp)]
         /\ atCount' = IF resp.access_token # 0 THEN resp.access_token ELSE atCount
         /\ rtCount' = IF resp.refresh_token # 0 THEN resp.refresh_token ELSE rtCount
         /\ validRT' = IF resp.refresh_token # 0
                         THEN validRT \cup {resp.refresh_token} ELSE validRT
    /\ UNCHANGED <<started, variant, artifact, now, session, oauth_state, stCount, rotated>>
    /\ HistoryUnchanged

\* the callback after a successful profile fetch: the record is written and the
\* state cookie cleared; in the cookie program the log line that follows formats
\* the expiry with toISOString(), which throws on NaN (no expires_in) and sends
\* the request, its cookies already set, to the catch block
callbackCommitted(q, t) ==
    [Redirect(q, IF variant = "jwt" /\ ~q.resp.has_expires_in
                   THEN "oauth_failed" ELSE "success")
       EXCEPT !.sessionData = CallbackSessionData(q.resp, t), !.wrote = "set",
              !.upstream = [has |-> TRUE, status |-> 200]]

callbackProfileFailedPartial(q) ==
    [Redirect(q, "oauth_failed")
       EXCEPT !.sessionData = [q.sessionData EXCEPT
                                 !.present = TRUE,
                                 !.access_token = q.resp.access_token,
                                 !.refresh_token = q.resp.refresh_token],
              !.wrote = "set"]

\* the profile fetch threw: the catch block redirects, nothing has been written
callbackProfileFailed(q) == Redirect(q, "oauth_failed")

CallbackProfileResponse(r) ==
    /\ NoneDone
    /\ req[r].pc = "cb_profile"
    /\ LET q == req[r]
       IN \E ok \in (IF q.resp.access_token = 0 THEN {FALSE} ELSE BOOLEAN) :
            /\ req' = [req EXCEPT ![r] =
                         Wrote(IF ok THEN callbackCommitted(q, now)
                                     ELSE callbackProfileFailed(q), session[q.sid])]
            /\ IF req'[r].wrote = "set"
                 THEN /\ session' = [session EXCEPT ![q.sid] = req'[r].sessionData]
                      /\ refreshFailed' = [refreshFailed EXCEPT ![q.sid] = FALSE]
                 ELSE UNCHANGED <<session, refreshFailed>>
            /\ oauth_state' = IF ok /\ variant = "jwt"
                                THEN [oauth_state EXCEPT ![q.sid] = 0]
                                ELSE oauth_state
    /\ UNCHANGED <<variant, artifact, now, stCount, started, loggedOut, passedStates>>
    /\ ProviderUnchanged

\* -------------------------------------------------------- POST /auth/logout
\* clearSession(res) / req.session.destroy(...): one synchronous step
LogoutEveryClient(s) ==
    /\ NoneDone
    /\ started < MaxStarted
    /\ session' = [c \in DOMAIN session |-> Absent]
    /\ loggedOut' = [loggedOut EXCEPT ![s] = TRUE]
    /\ started' = started + 1
    /\ UNCHANGED <<variant, artifact, now, oauth_state, req, stCount, refreshFailed, passedStates>>
    /\ ProviderUnchanged

Logout(s) ==
    /\ NoneDone
    /\ started < MaxStarted
    /\ session' = [session EXCEPT ![s] = Absent]
    /\ loggedOut' = [loggedOut EXCEPT ![s] = TRUE]
    /\ started' = started + 1
    /\ UNCHANGED <<variant, artifact, now, oauth_state, req, stCount, refreshFailed, passedStates>>
    /\ ProviderUnchanged

\* --------------------------------------------------------- GET /auth/status
\* JWTSessionManager.isSessionValid
isSessionValidNeedsUser(sd, t) ==
    /\ sd.present
    /\ sd.user # 0
    /\ sd.access_token # 0 /\ sd.refresh_token # 0

isSessionValid(sd, t) ==
    /\ sd.present
    /\ sd.access_token # 0 /\ sd.refresh_token # 0
    /\ \/ (sd.token_expires_at # 0 /\ t < sd.token_expires_at - SafetyMargin)
       \/ sd.refresh_token # 0

\* !!(req.session?.access_token && req.session?.refresh_token)
isAuthenticated(sd) == sd.access_token # 0 /\ sd.refresh_token # 0

\* token_expires_at ? Date.now() >= token_expires_at - 60000 : true
tokenExpiredNoMargin(sd, t) ==
    IF sd.token_expires_at # 0 THEN t >= sd.token_expires_at ELSE TRUE

tokenExpired(sd, t) ==
    IF sd.token_expires_at # 0 THEN t >= sd.token_expires_at - SafetyMargin ELSE TRUE

status(q, sd, t) ==
    [Respond(q, 200, IF (IF variant = "jwt" THEN isSessionValid(sd, t)
                                             ELSE isAuthenticated(sd))
                       THEN "AUTHENTICATED" ELSE "UNAUTHENTICATED")
       EXCEPT !.tokenExpired = tokenExpired(sd, t)]

Status(r, s) ==
    /\ CanStart(r)
    /\ req' = [req EXCEPT ![r] = status(NewRequest("status", s), session[s], now)]
    /\ started' = started + 1
    /\ Received(s)
    /\ UNCHANGED <<variant, artifact, now, session, oauth_state, stCount>>
    /\ ProviderUnchanged

\* the response has been consumed; the slot serves the next request
Recycle(r) ==
    /\ req[r].pc = "done"
    /\ req' = [req EXCEPT ![r] = IdleReq]
    /\ UNCHANGED <<started, variant, artifact, now, session, oauth_state, stCount>>
    /\ ProviderUnchanged
    /\ HistoryUnchanged

\* ==================================================== the early program
\* The first routers of the repository (routes/api.ts 1-86 and 330-400,
\* routes/auth.ts 443-559): the record lives in the express-session entry, the
\* callback stores what the exchange returned, requireAuth looks at the access
\* token only, and the only refresh is POST /auth/refresh (RefreshRoute). They are
\* a program of their own, EarlySpec, with variant = "early".
earlyCommitted(sd, resp, t) ==
    [sd EXCEPT !.present = TRUE,
               !.access_token = resp.access_token,
               !.refresh_token = resp.refresh_token,
               !.token_expires_at = TokenExpiresAt(t, resp)]

\* no record, or the record a callback has just committed at StartTime
EarlyInit ==
    /\ variant = "early"
    /\ now = StartTime
    /\ req = [r \in Requests |-> IdleReq]
    /\ oauth_state = [s \in Sessions |-> 0]
    /\ rotated = {}
    /\ started = 0
    /\ stCount = 0
    /\ refreshFailed = [s \in Sessions |-> FALSE]
    /\ loggedOut = [s \in Sessions |-> FALSE]
    /\ passedStates = [s \in Sessions |-> {}]
    /\ artifact = [s \in Sessions |-> NoArtifact]
    /\ \/ /\ session = [s \in Sessions |-> Absent]
          /\ validRT = {}
          /\ atCount = 0
          /\ rtCount = 0
       \/ /\ \E b \in FirstBodies :
               session = [s \in Sessions |-> earlyCommitted(Absent, b, StartTime)]
          /\ validRT = {1}
          /\ atCount = 1
          /\ rtCount = 1

\* if (!req.session.access_token) 401; next(); then the handler up to its axios.get
earlyRequireAuth(q, sd) ==
    IF sd.access_token = 0
      THEN Respond(q, 401, "NOT_AUTHENTICATED")
      ELSE [q EXCEPT !.pc = "catalog", !.nexts = @ + 1,
                     !.calls = <<Call("catalog", sd.access_token)>>]

EarlyApiRequest(r, s) ==
    /\ CanStart(r)
    /\ req' = [req EXCEPT ![r] = earlyRequireAuth(NewRequest("api", s), session[s])]
    /\ started' = started + 1
    /\ Received(s)
    /\ UNCHANGED <<variant, artifact, now, session, oauth_state, stCount>>
    /\ ProviderUnchanged

\* res.json(data), or 500 from the catch block whatever upstream answered
earlyRouteHandlerDone(q, up) ==
    [Respond(q, IF up.has /\ up.status = 200 THEN 200 ELSE 500,
                IF up.has /\ up.status = 200 THEN "OK" ELSE "API_ERROR")
       EXCEPT !.upstream = up]

EarlyCatalogResponse(r) ==
    /\ variant = "early"
    /\ NoneDone
    /\ req[r].pc = "catalog"
    /\ \E up \in CatalogAnswers(req[r].calls[Len(req[r].calls)].tok) :
         req' = [req EXCEPT ![r] = earlyRouteHandlerDone(req[r], up)]
    /\ UNCHANGED <<started, variant, artifact, now, session, oauth_state, stCount>>
    /\ ProviderUnchanged
    /\ HistoryUnchanged

\* GET /auth/callback: no state, no profile fetch
earlyCallback(q, hasCode) ==
    IF ~hasCode THEN Respond(q, 400, "no_code")
    ELSE [q EXCEPT !.pc = "cb_exchange", !.calls = <<Call("token_code", 0)>>]

EarlyCallback(r, s) ==
    /\ CanStart(r)
    /\ \E hasCode \in BOOLEAN :
         req' = [req EXCEPT ![r] =
                   earlyCallback([NewRequest("callback", s) EXCEPT !.hasCode = hasCode],
                                 hasCode)]
    /\ started' = started + 1
    /\ Received(s)
    /\ UNCHANGED <<variant, artifact, now, session, oauth_state, stCount>>
    /\ ProviderUnchanged

\* the three assignments to req.session and the redirect, or the catch block
earlyCallbackExchanged(q, resp, t) ==
    IF ~resp.ok THEN Redirect([q EXCEPT !.resp = resp], "error")
    ELSE [Redirect(q, "success")
            EXCEPT !.resp = resp, !.wrote = "set",
                   !.sessionData = earlyCommitted(q.sessionData, resp, t)]

EarlyCallbackExchangeResponse(r) ==
    /\ variant = "early"
    /\ NoneDone
    /\ req[r].pc = "cb_exchange"
    /\ \E resp \in ExchangeResponses :
         /\ req' = [req EXCEPT ![r] =
                      Wrote(earlyCallbackExchanged(req[r], resp, now), session[req[r].sid])]
         /\ session' = IF req'[r].wrote = "set"
                         THEN [session EXCEPT ![req[r].sid] = req'[r].sessionData]
                         ELSE session
         /\ atCount' = IF resp.access_token # 0 THEN resp.access_token ELSE atCount
         /\ rtCount' = IF resp.refresh_token # 0 THEN resp.refresh_token ELSE rtCount
         /\ validRT' = IF resp.refresh_token # 0
                         THEN validRT \cup {resp.refresh_token} ELSE validRT
    /\ UNCHANGED <<started, variant, artifact, now, oauth_state, stCount, rotated>>
    /\ HistoryUnchanged

EarlyNext ==
    \/ Tick
    \/ \E r \in Requests, s \in Sessions : EarlyCallback(r, s)
    \/ \E r \in Requests : EarlyCallbackExchangeResponse(r)
    \/ \E r \in Requests, s \in Sessions : EarlyApiRequest(r, s)
    \/ \E r \in Requests : EarlyCatalogResponse(r)
    \/ \E r \in Requests, s \in Sessions : RefreshRoute(r, s)
    \/ \E r \in Requests : RefreshRouteResponse(r)
    \/ \E s \in Sessions : Logout(s)
    \/ \E r \in Requests : Recycle(r)

EarlySpec == EarlyInit /\ [][EarlyNext]_vars

\* ================================================ two clients, two sessions
\* Each client carries its own artifact: its own spotracker_session cookie, or
\* its own session id and with it its own entry of the session store. ClientsSpec
\* runs the operations of Spec that write a record (callback, protected request
\* with its refresh, logout) for two clients at once; the first may have
\* authorized before, the second starts without a record.
Clients == {"s1", "s2"}

ClientsInit ==
    /\ variant \in Variants
    /\ now = StartTime
    /\ req = [r \in Requests |-> IdleReq]
    /\ rotated = {}
    /\ started = 0
    /\ refreshFailed = [s \in Clients |-> FALSE]
    /\ loggedOut = [s \in Clients |-> FALSE]
    /\ artifact = [s \in Clients |-> NoArtifact]
    /\ \/ /\ session = [s \in Clients |-> Absent]
          /\ oauth_state = [s \in Clients |-> 0]
          /\ validRT = {}
          /\ atCount = 0
          /\ rtCount = 0
          /\ stCount = 0
          /\ passedStates = [s \in Clients |-> {}]
       \/ /\ \E b \in FirstBodies :
               session = [s \in Clients |->
                            IF s = "s1" THEN CallbackSessionData(b, StartTime) ELSE Absent]
          /\ oauth_state = [s \in Clients |-> IF variant = "jwt" THEN 0 ELSE sessionID(s)]
          /\ validRT = {1}
          /\ atCount = 1
          /\ rtCount = 1
          /\ stCount = IF variant = "jwt" THEN 1 ELSE 0
          /\ passedStates = [s \in Clients |-> IF s = "s1" THEN {1} ELSE {}]

ClientsNext ==
    \/ \E r \in Requests, s \in Clients : ApiRequest(r, s)
    \/ \E r \in Requests : ApiRefreshResponse(r)
    \/ \E r \in Requests : CatalogResponse(r)
    \/ \E r \in Requests, s \in Clients : Callback(r, s)
    \/ \E r \in Requests : CallbackExchangeResponse(r)
    \/ \E r \in Requests : CallbackProfileResponse(r)
    \/ \E s \in Clients : Logout(s)
    \/ \E r \in Requests : Recycle(r)

ClientsSpec == ClientsInit /\ [][ClientsNext]_vars

\* ============================================ a store that reports an error
\* The applications run express-session on its MemoryStore (index.ts 46-48;
\* app.ts 44-58 names no store), whose set and destroy never report an error, and
\* jwt.sign does not throw on a string secret: Spec leaves these branches out.
\* OutcomeSpec adds them to the protected request: req.session.save(err),
\* req.session.destroy(err) and a createSession that throws.

\* save reported an error: 500 and return. The fields of req.session are already
\* assigned; whether the store holds them depends on the store (`kept`).
saveFailedFallsThrough(q, resp, t) ==
    [Respond(q, 500, "SAVE_FAILED")
       EXCEPT !.sessionData = UpdatedSessionData(q.sessionData, resp, t),
              !.resp = resp, !.refresh = "ok", !.nexts = @ + 1]

saveFailed(q, resp, t) ==
    [Respond(q, 500, "SAVE_FAILED")
       EXCEPT !.sessionData = UpdatedSessionData(q.sessionData, resp, t),
              !.resp = resp, !.refresh = "ok"]

\* createSession threw inside the try block: the catch block clears the cookie
\* and answers 401 REFRESH_FAILED
createSessionFailed(q, resp) ==
    [Respond(q, 401, "REFRESH_FAILED") EXCEPT !.resp = resp, !.refresh = "ok",
                                             !.wrote = "clear"]

\* destroy reported an error: it is logged and the 401 is sent all the same
destroyFailed(q, resp) ==
    [Respond(q, 401, "REFRESH_FAILED") EXCEPT !.resp = resp, !.refresh = "failed"]

ApiRefreshStoreError(r) ==
    /\ NoneDone
    /\ req[r].pc = "refresh"
    /\ LET q == req[r]
           rt == q.calls[1].tok
       IN \E resp \in RefreshResponses(rt), kept \in BOOLEAN :
            /\ variant = "jwt" => (resp.ok /\ ~kept)
            /\ ~resp.ok => ~kept
            /\ ProviderAfter(rt, resp)
            /\ req' = [req EXCEPT ![r] =
                         Wrote(IF ~resp.ok THEN destroyFailed(q, resp)
                               ELSE IF variant = "jwt" THEN createSessionFailed(q, resp)
                               ELSE saveFailed(q, resp, now), session[q.sid])]
            /\ session' = IF req'[r].wrote = "clear"
                            THEN [session EXCEPT ![q.sid] = Absent]
                            ELSE IF kept
                              THEN [session EXCEPT ![q.sid] = req'[r].sessionData]
                              ELSE session
            /\ refreshFailed' = IF req'[r].code = "REFRESH_FAILED"
                                  THEN [refreshFailed EXCEPT ![q.sid] = TRUE]
                                  ELSE refreshFailed
    /\ UNCHANGED <<started, variant, artifact, now, oauth_state, stCount, loggedOut, passedStates>>

OutcomeNext ==
    \/ Tick
    \/ \E r \in Requests, s \in Sessions : ApiRequest(r, s)
    \/ \E r \in Requests : ApiRefreshResponse(r)
    \/ \E r \in Requests : ApiRefreshStoreError(r)
    \/ \E r \in Requests : CatalogResponse(r)
    \/ \E r \in Requests : Recycle(r)

\* every upstream call returns or times out and its continuation runs; a response
\* that was sent is consumed
OutcomeFairness ==
    \A r \in Requests :
        /\ WF_vars(ApiRefreshResponse(r) \/ ApiRefreshStoreError(r))
        /\ WF_vars(CatalogResponse(r))
        /\ WF_vars(Recycle(r))

OutcomeSpec == Init /\ [][OutcomeNext]_vars /\ OutcomeFairness

\* ===================================================== logins before a callback
\* LoginSpec follows one client from its first visit, no record and no pending
\* state, through up to MaxLogins logins and the callbacks that follow them.
LoginInit ==
    /\ variant \in Variants
    /\ now = StartTime
    /\ req = [r \in Requests |-> IdleReq]
    /\ rotated = {}
    /\ started = 0
    /\ refreshFailed = [s \in Sessions |-> FALSE]
    /\ loggedOut = [s \in Sessions |-> FALSE]
    /\ artifact = [s \in Sessions |-> NoArtifact]
    /\ session = [s \in Sessions |-> Absent]
    /\ oauth_state = [s \in Sessions |-> 0]
    /\ validRT = {}
    /\ atCount = 0
    /\ rtCount = 0
    /\ stCount = 0
    /\ passedStates = [s \in Sessions |-> {}]

\* the logins of LoginSpec are bounded by MaxLogins alone
Begin(r, s) == LoginUpTo(r, s, MaxLogins) /\ UNCHANGED started

Complete(r, s) == CallbackUpTo(r, s, MaxLogins)

LoginNext ==
    \/ \E r \in Requests, s \in Sessions : Begin(r, s)
    \/ \E r \in Requests, s \in Sessions : Complete(r, s)
    \/ \E r \in Requests : CallbackExchangeResponse(r)
    \/ \E r \in Requests : CallbackProfileResponse(r)
    \/ \E r \in Requests : Recycle(r)

LoginSpec == LoginInit /\ [][LoginNext]_vars

\* ============================================ the lifetime of the artifact
\* LifetimeSpec follows one session over a day and more, an hour at a step. At
\* that scale a request is one step: its upstream calls return or time out within
\* seconds. What the artifact carries beside the record is its expiry: the exp
\* claim jwt.sign adds and the maxAge of the cookie, both 24 hours from the
\* moment the artifact is written.
HourMs == 3600000
SessionMaxAge == 86400000
LifetimeEnd == StartTime + MaxHours * HourMs

\* res.cookie(JWT_COOKIE_NAME, jwt.sign({sessionData}, secret, {expiresIn: '24h'}),
\* {maxAge: 24h}); express-session with rolling: true does the same to its cookie
createSession(a, t) == [a EXCEPT !.expires = t + SessionMaxAge]

\* jwt.verify rejects a token at or past its exp; the browser drops the cookie then
verify(a, t) == a.expires # 0 /\ t < a.expires

\* the token endpoint's 2xx bodies at this scale: expires_in of one or two hours
HourBodies ==
    {[ok |-> TRUE, access_token |-> 1, refresh_token |-> n,
      has_expires_in |-> TRUE, expires_in |-> e] : n \in {0, 1}, e \in {3600, 7200}}

Authorized(t) == [expires |-> t + SessionMaxAge, authorized |-> t]

LifetimeInit ==
    /\ variant \in Variants
    /\ now = StartTime
    /\ req = [r \in Requests |-> IdleReq]
    /\ \E b \in {h \in HourBodies : h.refresh_token # 0} :
         session = [s \in Sessions |-> CallbackSessionData(b, StartTime)]
    /\ artifact = [s \in Sessions |-> Authorized(StartTime)]
    /\ oauth_state = [s \in Sessions |-> IF variant = "jwt" THEN 0 ELSE sessionID(s)]
    /\ rotated = {}
    /\ validRT = {1}
    /\ started = 0
    /\ atCount = 1
    /\ rtCount = 1
    /\ stCount = IF variant = "jwt" THEN 1 ELSE 0
    /\ refreshFailed = [s \in Sessions |-> FALSE]
    /\ loggedOut = [s \in Sessions |-> FALSE]
    /\ passedStates = [s \in Sessions |-> {1}]

LifetimeFrame ==
    UNCHANGED <<variant, oauth_state, started, validRT, rotated, atCount, rtCount,
                stCount, refreshFailed, loggedOut, passedStates>>

LifetimeTick ==
    /\ \A r \in Requests : req[r].pc = "idle"
    /\ now < LifetimeEnd
    /\ now' = now + HourMs
    /\ UNCHANGED <<session, req, artifact>>
    /\ LifetimeFrame

\* a login and its callback: the artifact of a new authorization
LifetimeCallback(s) ==
    /\ \A r \in Requests : req[r].pc = "idle"
    /\ ~verify(artifact[s], now)
    /\ \E b \in {h \in HourBodies : h.refresh_token # 0} :
         session' = [session EXCEPT ![s] = CallbackSessionData(b, now)]
    /\ artifact' = [artifact EXCEPT ![s] = Authorized(now)]
    /\ UNCHANGED <<now, req>>
    /\ LifetimeFrame

OkAnswer == [has |-> TRUE, status |-> 200]

\* a protected request from getSession to its response
LifetimeApiRequest(s) ==
    /\ \A r \in Requests : req[r].pc = "idle"
    /\ LET sd == getSession(session[s], verify(artifact[s], now))
           q0 == requireAuth([NewRequest("api", s) EXCEPT
                                !.snap = sd, !.sessionData = sd], sd, now)
       IN IF q0.pc = "done"
            THEN /\ req' = [req EXCEPT ![1] = q0]
                 /\ UNCHANGED <<session, artifact>>
          ELSE IF q0.pc = "catalog"
            THEN /\ req' = [req EXCEPT ![1] = RouteHandlerDone(q0, OkAnswer)]
                 /\ artifact' = IF variant = "store"
                                  THEN [artifact EXCEPT ![s] = createSession(@, now)]
                                  ELSE artifact
                 /\ UNCHANGED session
          ELSE \E resp \in {FailedResponse} \cup HourBodies :
                 IF resp.ok
                   THEN LET q1 == RefreshSucceeded(q0, resp, now)
                        IN /\ req' = [req EXCEPT ![1] = RouteHandlerDone(q1, OkAnswer)]
                           /\ session' = [session EXCEPT ![s] = q1.sessionData]
                           /\ artifact' = [artifact EXCEPT ![s] = createSession(@, now)]
                   ELSE /\ req' = [req EXCEPT ![1] = RefreshFailed(q0)]
                        /\ session' = [session EXCEPT ![s] = Absent]
                        /\ artifact' = [artifact EXCEPT ![s].expires = 0]
    /\ UNCHANGED now
    /\ LifetimeFrame

LifetimeRecycle(r) ==
    /\ req[r].pc = "done"
    /\ req' = [req EXCEPT ![r] = IdleReq]
    /\ UNCHANGED <<now, session, artifact>>
    /\ LifetimeFrame

LifetimeNext ==
    \/ LifetimeTick
    \/ \E s \in Sessions : LifetimeCallback(s)
    \/ \E s \in Sessions : LifetimeApiRequest(s)
    \/ \E r \in Requests : LifetimeRecycle(r)

LifetimeSpec == LifetimeInit /\ [][LifetimeNext]_vars

\* ============================================== the cookie, written and read
\* RoundTripSpec applies createSession and getSession of JWTSessionManager to
\* records drawn from RoundTripRecords. Here the expiry of a record keeps the
\* JavaScript values apart that the other specifications fold into 0: undefined
\* stays 0, NaN (Date.now() + undefined * 1000) is NaNValue and null is
\* NullValue. The artifact is the cookie: the payload jwt.sign serialised, its
\* signature, and the exp claim with the cookie's maxAge.
NaNValue == -1
NullValue == -2

RoundTripRecords ==
    {[present |-> TRUE, access_token |-> a, refresh_token |-> n,
      token_expires_at |-> e, user |-> u] :
        a \in {0, 1}, n \in {0, 1}, u \in {0, 1},
        e \in {0, NaNValue, StartTime + HourMs}}

NoCookie == [expires |-> 0, authorized |-> 0, set |-> FALSE, signed |-> FALSE,
             payload |-> Absent]

\* JSON.stringify inside jwt.sign: an undefined member is left out (and read back
\* as undefined), NaN is written as null
stringify(sd) ==
    [sd EXCEPT !.token_expires_at = IF @ = NaNValue THEN NullValue ELSE @]

\* jwt.sign({ sessionData }, JWT_SECRET, ...)
sign(a, sd) == [a EXCEPT !.set = TRUE, !.signed = TRUE, !.payload = stringify(sd)]

RoundTripInit ==
    /\ variant = "jwt"
    /\ now = StartTime
    /\ req = [r \in Requests |-> IdleReq]
    /\ session \in [Sessions -> RoundTripRecords]
    /\ artifact = [s \in Sessions |-> NoCookie]
    /\ oauth_state = [s \in Sessions |-> 0]
    /\ rotated = {}
    /\ validRT = {}
    /\ started = 0
    /\ atCount = 0
    /\ rtCount = 0
    /\ stCount = 0
    /\ refreshFailed = [s \in Sessions |-> FALSE]
    /\ loggedOut = [s \in Sessions |-> FALSE]
    /\ passedStates = [s \in Sessions |-> {}]

RoundTripFrame ==
    UNCHANGED <<variant, session, oauth_state, started, validRT, rotated, atCount,
                rtCount, stCount, refreshFailed, loggedOut, passedStates>>

RoundTripTick ==
    /\ \A r \in Requests : req[r].pc = "idle"
    /\ now < LifetimeEnd
    /\ now' = now + HourMs
    /\ UNCHANGED <<req, artifact>>
    /\ RoundTripFrame

\* JWTSessionManager.createSession(res, session[s])
CreateSession(s) ==
    /\ \A r \in Requests : req[r].pc = "idle"
    /\ artifact' = [artifact EXCEPT ![s] = createSession(sign(@, session[s]), now)]
    /\ UNCHANGED <<now, req>>
    /\ RoundTripFrame

\* the client sends no cookie, or one whose signature is not the server's
LoseCookie(s) ==
    /\ \A r \in Requests : req[r].pc = "idle"
    /\ artifact[s].set
    /\ \/ artifact' = [artifact EXCEPT ![s] = NoCookie]
       \/ artifact[s].signed /\ artifact' = [artifact EXCEPT ![s].signed = FALSE]
    /\ UNCHANGED <<now, req>>
    /\ RoundTripFrame

\* JWTSessionManager.getSession(req): null without a cookie; jwt.verify throws on
\* a bad signature and on a token past its exp, and the catch block returns null
GetSession(s) ==
    /\ \A r \in Requests : req[r].pc = "idle"
    /\ LET a == artifact[s]
           sd == getSession(a.payload, a.set /\ a.signed /\ verify(a, now))
       IN req' = [req EXCEPT ![1] =
                    [NewRequest("getSession", s) EXCEPT
                       !.pc = "done", !.snap = sd,
                       !.code = IF sd = Absent THEN "null" ELSE "sessionData"]]
    /\ UNCHANGED <<now, artifact>>
    /\ RoundTripFrame

RoundTripRecycle(r) ==
    /\ req[r].pc = "done"
    /\ req' = [req EXCEPT ![r] = IdleReq]
    /\ UNCHANGED <<now, artifact>>
    /\ RoundTripFrame

RoundTripNext ==
    \/ RoundTripTick
    \/ \E s \in Sessions : CreateSession(s)
    \/ \E s \in Sessions : LoseCookie(s)
    \/ \E s \in Sessions : GetSession(s)
    \/ \E r \in Requests : RoundTripRecycle(r)

RoundTripSpec == RoundTripInit /\ [][RoundTripNext]_vars

\* =================================================================== claims
Active(q) == q.pc # "idle"
Done(q) == q.pc = "done"
Api(q) == q.kind = "api"
RefreshCalls(q) == CountCalls(q.calls, "refresh")
CatalogCalls(q) == CountCalls(q.calls, "catalog")
\* the record the request read holds a refresh token and a numeric expiry
Refreshable(q) == q.snap.refresh_token # 0 /\ q.snap.token_expires_at # 0
\* expires_at - now <= 60000 at the freshness check of the request
Stale(q) == q.snap.token_expires_at - q.at <= SafetyMargin

\* C1 (as stated): two protected requests in flight together on one stale session
\* issue at most one refresh call between them.
C1_AtMostOneRefresh ==
    \A r1 \in Requests, r2 \in Requests :
        (/\ r1 # r2
         /\ Api(req[r1]) /\ Api(req[r2])
         /\ Active(req[r1]) /\ Active(req[r2])
         /\ req[r1].sid = req[r2].sid
         /\ Refreshable(req[r1]) /\ Stale(req[r1])
         /\ Refreshable(req[r2]) /\ Stale(req[r2]))
        => RefreshCalls(req[r1]) + RefreshCalls(req[r2]) <= 1

\* C2 (as stated): a request whose refresh token was rotated by a concurrent
\* request while its own refresh was in flight, and whose refresh then failed,
\* leaves in place the updated record (latest refresh token) the other request's
\* refresh has written: once every request has completed the session holds it.
C2_RotationKeepsRecord ==
    \A r \in Requests :
        (/\ Done(req[r]) /\ Api(req[r])
         /\ req[r].refresh = "failed"
         /\ ~req[r].calls[1].old
         /\ req[r].calls[1].tok \in rotated
         /\ req[r].clobbered.present
         /\ req[r].clobbered.refresh_token \notin rotated \cup {0}
         /\ \A r2 \in Requests \ {r} : req[r2].pc \in {"idle", "done"})
        => session[req[r].sid] = req[r].clobbered

\* C3 (as stated): a callback whose state is missing or differs from the pending
\* state (and that carries no provider error) ends with the state rejection
\* (state_mismatch, or no_state for a missing one), calls no provider endpoint and
\* writes no record.
C3_StateMismatch ==
    \A r \in Requests :
        (req[r].kind = "callback" /\ req[r].badState /\ ~req[r].hasError)
        => /\ Done(req[r])
           /\ req[r].code \in {"state_mismatch", "no_state"}
           /\ req[r].calls = <<>>
           /\ req[r].wrote = "none"

C5_FailureInvalidates ==
    \A r \in Requests :
        (req[r].refresh # "none" /\ ~WellFormed(req[r].resp))
        => /\ Done(req[r])
           /\ req[r].code = "REFRESH_FAILED"
           /\ req[r].wrote = "clear"
           /\ ~session[req[r].sid].present

\* C6 (as stated): a refresh token the provider has replaced in a refresh response
\* is never sent to the token endpoint again.
C6_OldTokenNeverSent ==
    \A r \in Requests :
        \A i \in 1..Len(req[r].calls) :
            req[r].calls[i].ep = "refresh" => ~req[r].calls[i].old

C8_RetryOnce ==
    \A r \in Requests :
        (Done(req[r]) /\ Api(req[r]) /\ req[r].upstream.has /\ req[r].upstream.status = 401)
        => /\ CatalogCalls(req[r]) = 2
           /\ Len(req[r].calls) >= 3
           /\ req[r].calls[Len(req[r].calls) - 1].ep = "refresh"
           /\ req[r].calls[Len(req[r].calls)].ep = "catalog"

\* C9 (as stated): when the caller gets 401 because upstream rejected the bearer
\* token, the record is gone after the response.
C9_RejectedInvalidates ==
    \A r \in Requests :
        (Done(req[r]) /\ Api(req[r]) /\ req[r].status = 401
           /\ req[r].upstream.has /\ req[r].upstream.status = 401)
        => ~session[req[r].sid].present

\* the catalog call of the request failed for a reason other than authorization
UpstreamFailure(q) ==
    /\ Done(q) /\ Api(q) /\ q.code = "API_ERROR"
    /\ ~(q.upstream.has /\ q.upstream.status = 401)

\* C10: when the catalog call fails for a reason other than authorization, it was
\* the request's only catalog call and its last upstream call, the request wrote
\* nothing but the record its own refresh produced, and the response carries the
\* upstream status, or 500 when upstream did not answer.
C10_UpstreamErrorPassThrough ==
    \A r \in Requests :
        UpstreamFailure(req[r])
        => /\ CatalogCalls(req[r]) = 1
           /\ req[r].calls[Len(req[r].calls)].ep = "catalog"
           /\ RefreshCalls(req[r]) = IF req[r].refresh = "none" THEN 0 ELSE 1
           /\ req[r].wrote = IF req[r].refresh = "ok" THEN "set" ELSE "none"
           /\ req[r].refresh = "none" => req[r].sessionData = req[r].snap
           /\ req[r].status = IF req[r].upstream.has THEN req[r].upstream.status ELSE 500

\* C10 witness: a rate-limited catalog call, and the request answered 429.
C10_Witness ==
    \E r \in Requests :
        /\ UpstreamFailure(req[r])
        /\ req[r].upstream.has /\ req[r].upstream.status = 429
        /\ req[r].status = 429

\* C11 (as stated): every catalog call of a protected request carries a token whose
\* recorded expires_at is present and more than 60000 ms after the time of the
\* request's freshness check.
C11_CatalogTokenFresh ==
    \A r \in Requests :
        (Api(req[r]) /\ CatalogCalls(req[r]) >= 1)
        => /\ req[r].sessionData.token_expires_at # 0
           /\ req[r].sessionData.token_expires_at - req[r].at > SafetyMargin

\* what GET /auth/status and a protected request would answer on session s now
StatusNow(s) == status(NewRequest("status", s), session[s], now)
ApiNow(s) == requireAuth(NewRequest("api", s), session[s], now)
Rejected(q) == Done(q) /\ q.status = 401 /\ q.calls = <<>>

\* C12 (as stated): from a REFRESH_FAILED answer until a callback commits a
\* record, status() on the session reports authenticated = false and a protected
\* request is rejected with 401 without any upstream call.
C12_StaysInvalidated ==
    /\ \A s \in Sessions :
         refreshFailed[s]
         => /\ StatusNow(s).code = "UNAUTHENTICATED"
            /\ Rejected(ApiNow(s))
    /\ \A r \in Requests :
         req[r].afterFailure
         => /\ req[r].kind = "status" => req[r].code = "UNAUTHENTICATED"
            /\ Api(req[r]) => Rejected(req[r])

\* C13: a protected request whose refresh call fails answers 401 REFRESH_FAILED in
\* that same request, after its single refresh call and without any catalog call.
C13_RefreshFailureEndsRequest ==
    \A r \in Requests :
        (Api(req[r]) /\ req[r].refresh = "failed")
        => /\ Done(req[r])
           /\ req[r].status = 401
           /\ req[r].code = "REFRESH_FAILED"
           /\ RefreshCalls(req[r]) = 1
           /\ CatalogCalls(req[r]) = 0

\* C13 witness: a stale record whose refresh token the provider no longer accepts;
\* the request has answered 401.
C13_Witness ==
    \E r \in Requests :
        /\ Api(req[r]) /\ req[r].refresh = "failed"
        /\ Refreshable(req[r]) /\ Stale(req[r])
        /\ req[r].calls[1].tok \notin validRT
        /\ req[r].status = 401


\* the request read a record with a refresh token whose expiry had passed, and its
\* refresh was answered with a token response
ExpiredRefreshed(q) ==
    /\ Api(q) /\ Refreshable(q) /\ q.snap.token_expires_at < q.at
    /\ q.refresh = "ok" /\ WellFormed(q.resp)

\* C14: a protected request on an expired record whose refresh is accepted makes
\* one refresh call and then one catalog call, the catalog call carries the newly
\* issued access token, and the record it persists has that token with
\* expires_at = (time of refresh) + expires_in * 1000.
C14_ExpiredRefreshThenCall ==
    \A r \in Requests :
        ExpiredRefreshed(req[r])
        => /\ Len(req[r].calls) = 2
           /\ req[r].calls[1].ep = "refresh"
           /\ req[r].calls[1].tok = req[r].snap.refresh_token
           /\ req[r].calls[2].ep = "catalog"
           /\ req[r].calls[2].tok = req[r].resp.access_token
           /\ req[r].calls[2].tok # req[r].snap.access_token
           /\ req[r].sessionData.access_token = req[r].resp.access_token
           /\ req[r].sessionData.token_expires_at
                = req[r].at + req[r].resp.expires_in * 1000
           /\ variant = "store" => req[r].wrote = "set"
           /\ (variant = "jwt" /\ Done(req[r]))
                => (req[r].wrote = "set" /\ session[req[r].sid] = req[r].sessionData)

\* C14 witness: such a request has returned the catalog data.
C14_Witness ==
    \E r \in Requests :
        /\ ExpiredRefreshed(req[r])
        /\ Done(req[r]) /\ req[r].status = 200
        /\ req[r].upstream.has /\ req[r].upstream.status = 200

\* C15 (as stated): the record a callback commits for a matching code and state,
\* after a successful exchange and profile fetch, has a non-empty access_token, a
\* non-empty refresh_token and a numeric expires_at later than the current time.
C15_CommittedRecordComplete ==
    \A r \in Requests :
        (/\ req[r].kind = "callback" /\ ~req[r].badState
         /\ req[r].resp.ok /\ req[r].upstream.has /\ req[r].upstream.status = 200)
        => /\ req[r].sessionData.access_token # 0
           /\ req[r].sessionData.refresh_token # 0
           /\ req[r].sessionData.token_expires_at # 0
           /\ req[r].sessionData.token_expires_at > req[r].at

\* the callback's code exchange or identity fetch failed
ExchangeFailed(q) ==
    /\ q.kind = "callback" /\ Done(q) /\ Len(q.calls) >= 1
    /\ \/ ~q.resp.ok
       \/ (Len(q.calls) = 2 /\ ~(q.upstream.has /\ q.upstream.status = 200))

\* C16: a callback whose code exchange or identity fetch failed has written nothing;
\* a callback writes only when it ends, after both calls have succeeded, and what
\* it writes is the whole record (tokens, expiry and user) of its exchange.
C16_NoPartialRecord ==
    \A r \in Requests :
        req[r].kind = "callback"
        => /\ ExchangeFailed(req[r]) => req[r].wrote = "none"
           /\ ~Done(req[r]) => (req[r].wrote = "none" /\ req[r].sessionData = req[r].snap)
           /\ req[r].wrote # "none"
                => /\ Done(req[r]) /\ req[r].wrote = "set"
                   /\ req[r].resp.ok
                   /\ req[r].upstream.has /\ req[r].upstream.status = 200
                   /\ session[req[r].sid] = CallbackSessionData(req[r].resp, req[r].at)
                   /\ session[req[r].sid].user # 0

\* C16 witness: a callback whose exchange succeeded and whose identity fetch failed,
\* on a session that held a record; the record is the one it was.
C16_Witness ==
    \E r \in Requests :
        /\ ExchangeFailed(req[r]) /\ req[r].resp.ok
        /\ Len(req[r].calls) = 2
        /\ req[r].snap.present
        /\ session[req[r].sid] = req[r].snap

\* C17 (as stated): a callback presenting a state value with which an earlier
\* callback has passed the state check ends with the state rejection.
C17_StateSingleUse ==
    \A r \in Requests :
        (req[r].kind = "callback" /\ req[r].replay /\ ~req[r].hasError)
        => /\ Done(req[r])
           /\ req[r].code \in {"state_mismatch", "no_state"}

\* the record holds exactly one of the two tokens
OnlyOneToken(sd) == (sd.access_token # 0) # (sd.refresh_token # 0)

\* C18 (as stated): the stored record never holds exactly one of access_token and
\* refresh_token, and a request that reads such a record makes no upstream call
\* with it and leaves the session without it.
C18_BothTokensOrAbsent ==
    /\ \A s \in Sessions : ~OnlyOneToken(session[s])
    /\ \A r \in Requests :
         (Active(req[r]) /\ OnlyOneToken(req[r].snap))
         => /\ req[r].calls = <<>>
            /\ Done(req[r]) => ~session[req[r].sid].present

\* the step is the commit of a callback that passed the state check
CallbackCommit(s) ==
    \E r \in Requests :
        /\ req[r].kind = "callback" /\ req[r].sid = s /\ ~req[r].badState
        /\ req[r].pc = "cb_profile" /\ req'[r].pc = "done"
        /\ req'[r].wrote = "set"

\* C19 (as stated): a session without a record becomes an authenticated one only
\* by the commit of a callback that passed the state check and both of its
\* upstream calls.
C19_AbsentUntilCallback ==
    [][\A s \in Sessions :
          (~session[s].present /\ isAuthenticated(session'[s]))
          => CallbackCommit(s)]_vars

\* C20 (as stated): after a logout, status() on the session reports
\* authenticated = false and a protected request is rejected with 401 without any
\* upstream call.
C20_LogoutDestroys ==
    /\ \A s \in Sessions :
         loggedOut[s]
         => /\ StatusNow(s).code = "UNAUTHENTICATED"
            /\ Rejected(ApiNow(s))
    /\ \A r \in Requests :
         req[r].afterLogout
         => /\ req[r].kind = "status" => req[r].code = "UNAUTHENTICATED"
            /\ Api(req[r]) => Rejected(req[r])

\* the callback ended with the state-mismatch, missing-code or exchange-failed outcome
CallbackFailed(q) ==
    /\ q.kind = "callback" /\ Done(q) /\ ~q.hasError
    /\ \/ q.code \in {"state_mismatch", "no_state", "no_code"}
       \/ (q.code = "oauth_failed" /\ ~q.resp.ok)

\* C21 (as stated): when a callback has failed with the state-mismatch,
\* missing-code or exchange-failed outcome, the session holds no record, also when
\* it held one before the callback.
C21_CallbackFailureInvalidates ==
    \A r \in Requests :
        CallbackFailed(req[r]) => ~session[req[r].sid].present

\* the request has changed the record: a refresh that updated it, a callback that
\* committed it
ChangesRecord(q) == q.refresh = "ok" \/ (q.kind = "callback" /\ q.code = "success")

StateOnly(q) == q.kind = "callback" /\ ~q.badState /\ ~q.hasCode

\* C23 (as stated): a callback whose state matches the pending state and which
\* carries no code, the provider's error parameter present or not, ends with the
\* missing-code outcome, calls no provider endpoint and writes no record.
C23_MissingCode ==
    \A r \in Requests :
        StateOnly(req[r])
        => /\ Done(req[r])
           /\ req[r].code = "no_code"
           /\ req[r].calls = <<>>
           /\ req[r].wrote = "none"

\* C23 (amended): such a callback calls no provider endpoint and writes no record;
\* it ends with the missing-code outcome when it carries no error parameter, and
\* with the provider's error as its outcome when it carries one.
C23_NoCodeNoExchange ==
    \A r \in Requests :
        StateOnly(req[r])
        => /\ Done(req[r])
           /\ req[r].code = IF req[r].hasError THEN "oauth_error" ELSE "no_code"
           /\ req[r].calls = <<>>
           /\ req[r].wrote = "none"

\* C23 witness: a callback with the pending state, without code and without error
\* parameter, answered no_code.
C23_Witness ==
    \E r \in Requests :
        /\ StateOnly(req[r]) /\ ~req[r].hasError
        /\ req[r].code = "no_code"
        /\ req[r].calls = <<>>

\* requireAuth lets the request through, directly or by attempting a refresh
Admitted(q) == q.pc \in {"catalog", "refresh"}

\* C24 (as stated): for every record the session can hold, status() reports
\* authenticated exactly when requireAuth would admit a protected request on that
\* record, directly or through a refresh attempt.
C24_StatusMatchesRequireAuth ==
    \A s \in Sessions :
        (StatusNow(s).code = "AUTHENTICATED") <=> Admitted(ApiNow(s))

\* C25: a protected request that carries no artifact, an artifact that does not
\* verify, or a record without a refresh token is answered 401 and makes no call
\* to the token endpoint or to a catalog endpoint.
C25_ApiRequiresAuth ==
    \A r \in Requests :
        (/\ Api(req[r]) /\ Active(req[r])
         /\ (req[r].forged \/ ~req[r].snap.present \/ req[r].snap.refresh_token = 0))
        => Rejected(req[r])

\* C25 witness: a request whose artifact does not verify, on a session that holds
\* a full record, answered 401 without a call.
C25_Witness ==
    \E r \in Requests :
        /\ Api(req[r]) /\ Rejected(req[r])
        /\ req[r].forged /\ isAuthenticated(session[req[r].sid])

\* C26 (as stated): a protected request is let through by the artifact check only
\* while less than 24 hours have passed since the authorization that created the
\* session, whatever the expiry of the access token and whatever refreshes were
\* made in between.
C26_LifetimeBounded ==
    \A r \in Requests :
        (Api(req[r]) /\ Done(req[r]) /\ req[r].snap.present)
        => req[r].at - artifact[req[r].sid].authorized < SessionMaxAge

\* the record the request read has a refresh token and no numeric expires_at
NoExpiry(q) == q.snap.refresh_token # 0 /\ q.snap.token_expires_at = 0

\* C27 (as stated): a protected request on a record that has a refresh token and no
\* numeric expires_at makes a refresh call before any catalog call, and no catalog
\* call of it carries the access token the record held.
C27_MissingExpiryRefreshes ==
    \A r \in Requests :
        (Api(req[r]) /\ Active(req[r]) /\ NoExpiry(req[r]))
        => /\ req[r].calls # <<>>
           /\ req[r].calls[1].ep = "refresh"
           /\ \A i \in 1..Len(req[r].calls) :
                (req[r].calls[i].ep = "catalog" /\ req[r].snap.access_token # 0)
                => req[r].calls[i].tok # req[r].snap.access_token

\* C28 (as stated): a successful refresh, in requireAuth or in POST /auth/refresh,
\* stores the returned access_token and the new expires_at, replaces the
\* refresh_token exactly when the response carries one, and leaves the user
\* snapshot as it was.
C28_RefreshFrame ==
    \A r \in Requests :
        req[r].refresh = "ok"
        => /\ req[r].sessionData.access_token = req[r].resp.access_token
           /\ req[r].sessionData.token_expires_at = TokenExpiresAt(req[r].at, req[r].resp)
           /\ req[r].sessionData.refresh_token
                = IF req[r].resp.refresh_token # 0
                    THEN req[r].resp.refresh_token
                    ELSE req[r].snap.refresh_token
           /\ req[r].sessionData.user = req[r].snap.user

\* the freshness check applied at time t to record rec of session s
Recheck(s, rec, t) ==
    requireAuth([NewRequest("api", s) EXCEPT !.at = t, !.snap = rec, !.sessionData = rec],
                rec, t)

\* the check let the request through with the record as it was: no refresh call,
\* the stored token on the catalog call, nothing written
PassedUnchanged(q) ==
    /\ q.pc \in {"catalog", "done"}
    /\ q.refresh = "none" /\ RefreshCalls(q) = 0
    /\ q.calls[1] = Call("catalog", q.snap.access_token)
    /\ q.sessionData = q.snap
    /\ q.wrote = "none" /\ q.cookie = "none"

Times == {StartTime + k * TickMs : k \in 0..MaxTicks}

\* C29 (as stated): the freshness check applied again to the record a successful
\* refresh of requireAuth produced, at a time when its expires_at is more than
\* 60000 ms away, makes no call and yields the same record; and a request on any
\* record with a refresh token whose expires_at is more than 60000 ms away goes on
\* with the record unchanged and writes no artifact.
C29_Idempotent ==
    \A r \in Requests :
        /\ (Api(req[r]) /\ req[r].refresh = "ok")
             => \A t \in Times :
                  (t >= req[r].at /\ req[r].sessionData.token_expires_at - t > SafetyMargin)
                  => PassedUnchanged(Recheck(req[r].sid, req[r].sessionData, t))
        /\ (Api(req[r]) /\ Active(req[r]) /\ ~req[r].forged /\ Refreshable(req[r])
              /\ ~Stale(req[r]))
             => PassedUnchanged(req[r])

UserSnapshots == {0, 1, 2}
WithUser(sd, u) == [sd EXCEPT !.user = u]

\* C31: whenever a protected request or a status request arrives, requireAuth and
\* status() give the record it read and every record that differs from it only in
\* the user field the same answer: the same branch, the same refresh token sent to
\* the provider, the same authenticated and tokenExpired values.
C31_UserNeverDecides ==
    [][\A r \in Requests :
         (req[r].pc = "idle" /\ req'[r].kind \in {"api", "status"})
         => LET sd == req'[r].snap
                q == NewRequest("api", req'[r].sid)
                auth == requireAuth(q, sd, now)
                answer == status(q, sd, now)
            IN \A u \in UserSnapshots :
                 /\ requireAuth(q, WithUser(sd, u), now) = auth
                 /\ status(q, WithUser(sd, u), now) = answer]_vars

\* C31 witness: a request on a record with a user snapshot has been sent to the
\* refresh, and the same record without the snapshot would send the same token.
C31_Witness ==
    \E r \in Requests :
        /\ Api(req[r]) /\ req[r].pc = "refresh"
        /\ req[r].snap.user # 0
        /\ session[req[r].sid] = req[r].snap
        /\ requireAuth(NewRequest("api", req[r].sid), WithUser(req[r].snap, 0), now).calls
              = req[r].calls

\* the step is an operation on session s: a request of s arrives, a request of s
\* goes on after one of its upstream calls, or s is logged out
OperationOn(s) ==
    \/ \E r \in Requests : ApiRequest(r, s) \/ Callback(r, s)
    \/ Logout(s)
    \/ \E r \in Requests :
         /\ req[r].pc # "idle" /\ req[r].sid = s
         /\ \/ ApiRefreshResponse(r) \/ CatalogResponse(r)
            \/ CallbackExchangeResponse(r) \/ CallbackProfileResponse(r)

\* C32: every operation on one session (callback, refresh, refresh failure,
\* logout, protected API request) leaves the record of every other session
\* unchanged, in every interleaving of the requests of two sessions: a record
\* changes only in a step that is an operation on its own session.
C32_NoCrossSessionSharing ==
    [][\A s \in Clients : session'[s] # session[s] => OperationOn(s)]_vars

\* C32 witness: the second client's callback has committed its record while the
\* first client holds its own.
C32_Witness ==
    \E r \in Requests :
        /\ req[r].kind = "callback" /\ Done(req[r]) /\ req[r].wrote = "set"
        /\ req[r].sid = "s2"
        /\ session["s2"].present /\ session["s1"].present
        /\ session["s1"] # session["s2"]

\* the response was sent by the route handler, to which requireAuth had passed
\* control
ByHandler(q) == q.code \in {"OK", "API_ERROR"}

\* requireAuth has not decided yet (its refresh call is out), or it has called
\* next() once and sent nothing itself, or it has sent one response and not
\* called next()
OneOutcome(q) ==
    /\ q.pc = "refresh" => (q.nexts = 0 /\ q.sent = 0)
    /\ q.pc = "catalog" => (q.nexts = 1 /\ q.sent = 0)
    /\ Done(q) => /\ q.sent = 1
                  /\ IF ByHandler(q) THEN q.nexts = 1 ELSE q.nexts = 0

\* C33: for every protected request requireAuth either passes control to the
\* route handler exactly once or sends exactly one error response, never both and
\* never neither, on every path (no session, no refresh token, fresh token,
\* refresh success, refresh failure, failure to save or destroy the session); and
\* as every upstream call returns or times out, every request is answered.
C33_ExactlyOneOutcome ==
    /\ [](\A r \in Requests : Api(req[r]) => OneOutcome(req[r]))
    /\ \A r \in Requests : (Api(req[r]) /\ Active(req[r])) ~> Done(req[r])

\* C33 witness: the refresh succeeded, saving the session failed, and the request
\* was answered 500 once without reaching the route handler.
C33_Witness ==
    \E r \in Requests :
        /\ Api(req[r]) /\ Done(req[r])
        /\ req[r].code = "SAVE_FAILED"
        /\ req[r].sent = 1 /\ req[r].nexts = 0

\* C34 (as stated): if a protected request on a stale session has started its
\* refresh before a logout on the same session and completes after it, then after
\* both have completed the session is Absent.
C34_LogoutNotUndone ==
    \A r \in Requests :
        (/\ Api(req[r]) /\ Done(req[r])
         /\ req[r].refresh # "none"
         /\ ~req[r].afterLogout /\ loggedOut[req[r].sid])
        => session[req[r].sid] = Absent

\* C35 (as stated): requireAuth admits a request without a network call if and
\* only if the record has a non-empty access_token and expires_at - now > 60000; a
\* record with a refresh token and no access token starts a refresh, however far
\* ahead its expires_at is, and is not rejected.
C35_AdmitsIffFresh ==
    \A s \in Sessions :
        LET sd == session[s]
        IN /\ (ApiNow(s).pc = "catalog")
                <=> (sd.access_token # 0 /\ sd.token_expires_at - now > SafetyMargin)
           /\ (sd.refresh_token # 0 /\ sd.access_token = 0) => ApiNow(s).pc = "refresh"

\* C36: a protected request on a record without a refresh token is rejected with
\* 401 before any network call, and the rejection leaves the record in the
\* session as it was, neither cleared nor rewritten, so that a repeated request
\* on the same artifact gets the same 401.
C36_RejectionLeavesRecord ==
    [][\A r \in Requests :
         (/\ req[r].pc = "idle" /\ Api(req'[r])
          /\ req'[r].snap.refresh_token = 0)
         => /\ Rejected(req'[r])
            /\ req'[r].wrote = "none" /\ req'[r].cookie = "none"
            /\ session' = session
            /\ LET again == requireAuth(IdleReq, req'[r].snap, now')
               IN /\ again.status = 401 /\ again.code = req'[r].code
                  /\ again.calls = <<>>]_vars

\* C36 witness: a record with an access token and no refresh token; the request
\* on it was answered 401 NO_REFRESH_TOKEN and the record is still there.
C36_Witness ==
    \E r \in Requests :
        /\ Api(req[r]) /\ Rejected(req[r])
        /\ req[r].code = "NO_REFRESH_TOKEN"
        /\ req[r].snap.access_token # 0
        /\ session[req[r].sid] = req[r].snap

\* the callback presents a state that a login of the session has issued and that
\* is not the one the latest login issued
Superseded(q) == q.kind = "callback" /\ q.issued /\ q.badState

\* a callback of session s starts in slot r while a login has left s a pending
\* state, and the state it presents is not that one
StartsWithOtherState(r, s) ==
    /\ oauth_state[s] # 0
    /\ req[r].pc = "idle"
    /\ req'[r].kind = "callback" /\ req'[r].sid = s
    /\ req'[r].badState /\ ~req'[r].hasError

\* C37 (as stated): a session holds one pending state, the one its latest login
\* issued: when login is called twice before any callback, a callback presenting
\* the state of the first login (and no provider error) fails with the state
\* mismatch and goes no further, and so does every callback presenting anything
\* but the state of the second login.
C37_OnePendingState ==
    /\ [](\A r \in Requests :
            (Superseded(req[r]) /\ ~req[r].hasError)
            => /\ Done(req[r])
               /\ req[r].code = "state_mismatch"
               /\ req[r].calls = <<>>)
    /\ [][\A r \in Requests, s \in Sessions :
            StartsWithOtherState(r, s)
            => /\ Done(req'[r])
               /\ req'[r].code \in {"state_mismatch", "no_state"}
               /\ req'[r].calls = <<>>]_vars

\* C38: for every record and time, status() reports tokenExpired = true exactly
\* when expires_at is missing or now >= expires_at - 60000, which for a record
\* holding both tokens is exactly when a protected request at that time would
\* perform a refresh.
C38_TokenExpiredMatchesRefresh ==
    \A r \in Requests :
        (req[r].kind = "status" /\ Done(req[r]))
        => LET sd == req[r].snap
               t == req[r].at
           IN /\ req[r].tokenExpired
                   <=> (sd.token_expires_at = 0 \/ t >= sd.token_expires_at - 60000)
              /\ (sd.access_token # 0 /\ sd.refresh_token # 0)
                   => (req[r].tokenExpired
                         <=> requireAuth(NewRequest("api", req[r].sid), sd, t).pc = "refresh")

\* C38 witness: a record with both tokens whose access token is still valid but
\* inside the margin; status() has reported tokenExpired and a protected request
\* would refresh.
C38_Witness ==
    \E r \in Requests :
        /\ req[r].kind = "status" /\ Done(req[r])
        /\ req[r].snap.access_token # 0 /\ req[r].snap.refresh_token # 0
        /\ req[r].at < req[r].snap.token_expires_at
        /\ req[r].tokenExpired
        /\ ApiNow(req[r].sid).pc = "refresh"

\* C39 (as stated): for every record d, getSession applied to the cookie written
\* by createSession(d) returns a record equal to d while the artifact is within
\* its 24-hour lifetime; getSession returns null when the cookie is missing, its
\* signature does not verify, or its lifetime has passed.
C39_RoundTrip ==
    \A r \in Requests :
        (req[r].kind = "getSession" /\ Done(req[r]))
        => LET a == artifact[req[r].sid]
               d == session[req[r].sid]
           IN IF a.set /\ a.signed /\ req[r].at < a.expires
                THEN req[r].code = "sessionData" /\ req[r].snap = d
                ELSE req[r].code = "null" /\ req[r].snap = Absent

Next ==
    \/ Tick
    \/ \E r \in Requests, s \in Sessions : ApiRequest(r, s)
    \/ \E r \in Requests : ApiRefreshResponse(r)
    \/ \E r \in Requests : CatalogResponse(r)
    \/ \E r \in Requests, s \in Sessions : RefreshRoute(r, s)
    \/ \E r \in Requests : RefreshRouteResponse(r)
    \/ \E s \in Sessions : SetSession(s)
    \/ \E r \in Requests, s \in Sessions : Login(r, s)
    \/ \E r \in Requests, s \in Sessions : Callback(r, s)
    \/ \E r \in Requests : CallbackExchangeResponse(r)
    \/ \E r \in Requests : CallbackProfileResponse(r)
    \/ \E s \in Sessions : Logout(s)
    \/ \E r \in Requests, s \in Sessions : Status(r, s)
    \/ \E r \in Requests : Recycle(r)

Spec == Init /\ [][Next]_vars
====
